---- MODULE Spec2Model ----
(***************************************************************************)
(* State-synchronisation model of the data-table layer:                    *)
(*   - useDataTable (src/src/hooks/use-data-table.ts): controlled table     *)
(*     state kept in step with the URL query string through nuqs;           *)
(*   - DataTableAdvancedFilterItem                                          *)
(*     (src/src/components/data-table/data-table-advanced-filter-item.tsx): *)
(*     debounced text input pushed to the URL with router.push.             *)
(*                                                                         *)
(* Strings are sequences of tokens; the token "." is the character the     *)
(* code splits and joins on.  A URL parameter is a record                   *)
(* [present, val]: absent, or present with a value.                         *)
(***************************************************************************)
EXTENDS Integers, Sequences, FiniteSets, TLC

\* ------------------------------------------------------------------ bounds
\* Largest page index the user navigates to (pageCount - 1).
MaxPage == 1
\* Most navigations of router.push that are in flight at once.
MaxNav == 2
\* Longest option value of a faceted field, in tokens, and most options
\* selected at once, when a faceted filter is taken through the URL.
MaxValueLen == 3
MaxSelected == 2

\* ------------------------------------------------------- program constants
defaultPageSize == 10
DebounceDelay == 500

\* --------------------------------------------------------------- strings
DOT == "."

Absent == [present |-> FALSE, val |-> <<>>]
Some(v) == [present |-> TRUE, val |-> v]

\* String.prototype.split('.'): the segments between the separators.
RECURSIVE SplitDot(_)
SplitDot(s) ==
  IF \A i \in 1..Len(s) : s[i] # DOT
    THEN <<s>>
    ELSE LET i == CHOOSE j \in 1..Len(s) :
                    s[j] = DOT /\ \A k \in 1..(j - 1) : s[k] # DOT
         IN <<SubSeq(s, 1, i - 1)>> \o SplitDot(SubSeq(s, i + 1, Len(s)))

\* The position of the first "." of a string, 0 when it has none; the part
\* before it (the whole string when it has none) and the part after it.
FirstDot(s) ==
  IF \E i \in 1..Len(s) : s[i] = DOT
    THEN CHOOSE i \in 1..Len(s) : s[i] = DOT /\ \A j \in 1..(i - 1) : s[j] # DOT
    ELSE 0

BeforeFirstDot(s) == IF FirstDot(s) = 0 THEN s ELSE SubSeq(s, 1, FirstDot(s) - 1)

AfterFirstDot(s) ==
  IF FirstDot(s) = 0 THEN Absent ELSE Some(SubSeq(s, FirstDot(s) + 1, Len(s)))

\* Array.prototype.join('.').
RECURSIVE JoinDot(_)
JoinDot(list) ==
  IF Len(list) = 0 THEN <<>>
  ELSE IF Len(list) = 1 THEN list[1]
  ELSE list[1] \o <<DOT>> \o JoinDot(Tail(list))

\* ------------------------------------------------------------ the columns
\* filterFields of the tasks table: a search field and a faceted field.
searchableColumns == {"title"}
filterableColumns == {"status"}
FilterKeys == searchableColumns \cup filterableColumns
\* The keys useQueryStates is given: the filter fields and the three table keys.
KeyMapKeys == FilterKeys \cup {"pageIndex", "pageSize", "sort"}
\* A parameter of the address bar that the hook does not know.
ForeignKeys == {"from"}
UrlKeys == KeyMapKeys \cup ForeignKeys

\* Page sizes the user picks and texts the user types.
PageSizes == {10, 20}
SearchTexts == {<<"a">>, <<"b">>}

\* A column filter value: none, a string (kind "str", val holds it), or an
\* array of strings (kind "arr").
NoReset == [by |-> "none", from |-> 0]

NoFilter == [kind |-> "none", val |-> <<>>]
StrFilter(s) == [kind |-> "str", val |-> <<s>>]
ArrFilter(list) == [kind |-> "arr", val |-> list]

VARIABLES
  \* configuration of the hook, fixed for a run
  enableAdvancedFilter, defaultSort,
  \* the URL parameters of the key map as nuqs holds them: the address bar
  \* with the queued writes applied, which is the address bar once flushed
  query,
  \* the keys of searchParams (useSearchParams), the address bar as the hook
  \* last rendered with it; the hook reads nothing else of it
  searchParams,
  \* nuqs has queued writes that the address bar does not show yet
  flushPending,
  \* React state of the hook
  phase, pagination, sorting, columnFilters, mounted,
  \* useDebounce: the debounced searchable filters, and its timer
  debounced, timerPending,
  \* a write queued before the debounce timer started is still not flushed
  staleAtTimerStart,
  \* history: whether the last step ran the body of the filter effect, on
  \* which change, and the page index it found
  lastReset,
  \* a faceted filter taken through the URL: the list selected, the parameter
  \* the filter effect writes for it and the filter a fresh mount restores
  roundTrip,
  \* DataTableAdvancedFilterItem, one per selected option: whether it is
  \* mounted, its value, debounceValue (with the timer of useDebounce) and
  \* filterVariety
  item,
  \* the searchParams the items last rendered with, the URLs given to
  \* router.push whose navigation has not completed, and the address bar
  itemSearchParams, navQueue, addressBar

hookVars == <<enableAdvancedFilter, defaultSort, query, searchParams,
              flushPending,
              phase, pagination, sorting, columnFilters, mounted,
              debounced, timerPending, staleAtTimerStart, lastReset,
             roundTrip>>

itemVars == <<item, itemSearchParams, navQueue, addressBar>>

vars == <<hookVars, itemVars>>

\* ------------------------------------------------------------------ nuqs
\* useQueryStates: the parser of each key applied to the raw parameter;
\* pageIndex, pageSize and sort have defaults, the filter fields are null
\* when absent.
Default(k) ==
  CASE k = "pageIndex" -> Some(0)
    [] k = "pageSize" -> Some(defaultPageSize)
    [] k = "sort" -> Some(defaultSort)
    [] OTHER -> Absent

queryState(q) ==
  [k \in KeyMapKeys |-> IF q[k].present THEN q[k] ELSE Default(k)]

\* ------------------------------------------------------- initial state
\* Mutant: the order taken as everything after the first '.'.
MutInitialSorting(q) ==
  LET sort == queryState(q)["sort"].val
  IN <<[id |-> BeforeFirstDot(sort),
        desc |-> (AfterFirstDot(sort) = Some(<<"desc">>))]>>

\* const [column, order] = queryState.sort?.split('.') ?? []
InitialSorting(q) ==
  LET parts == SplitDot(queryState(q)["sort"].val)
      column == parts[1]
      order == IF Len(parts) >= 2 THEN Some(parts[2]) ELSE Absent
  IN <<[id |-> column, desc |-> (order = Some(<<"desc">>))]>>

InitialPagination(q) ==
  [pageIndex |-> queryState(q)["pageIndex"].val,
   pageSize |-> queryState(q)["pageSize"].val]

initialColumnFilters(q) ==
  [k \in FilterKeys |->
     LET value == queryState(q)[k]
     IN IF value.present /\ Len(value.val) > 0 /\ k \in filterableColumns
          THEN ArrFilter(SplitDot(value.val))
        ELSE IF value.present /\ Len(value.val) > 0 /\ k \in searchableColumns
          THEN ArrFilter(<<value.val>>)
        ELSE NoFilter]

\* ------------------------------------------------------------- effects
\* setQueryState(values): nuqs takes each key of the key map found in values,
\* null removing the parameter, and queues the write.
setQueryState(q, values) ==
  [k \in KeyMapKeys |-> IF k \in DOMAIN values THEN values[k] ELSE q[k]]

\* Mutant: the page size of queryState written back, not the table's.
MutPaginationEffect(q, pg) ==
  [queryState(q) EXCEPT !["pageIndex"] = Some(pg.pageIndex)]

\* Each effect passes the whole queryState of its render, spread under its
\* own keys.
PaginationEffect(q, pg) ==
  [queryState(q) EXCEPT !["pageIndex"] = Some(pg.pageIndex),
                        !["pageSize"] = Some(pg.pageSize)]

\* Mutant: the direction inverted.
MutSortParam(srt) ==
  IF Len(srt) > 0 /\ srt[1].id # <<>>
    THEN Some(srt[1].id \o <<DOT>> \o <<IF srt[1].desc THEN "asc" ELSE "desc">>)
    ELSE Absent

SortParam(srt) ==
  IF Len(srt) > 0 /\ srt[1].id # <<>>
    THEN Some(srt[1].id \o <<DOT>> \o <<IF srt[1].desc THEN "desc" ELSE "asc">>)
    ELSE Absent

SortingEffect(q, srt) ==
  [queryState(q) EXCEPT !["sort"] = SortParam(srt)]

\* The searchable and the filterable part of the column filters.
SearchablePart(cf) == [k \in searchableColumns |-> cf[k]]
FilterablePart(cf) == [k \in filterableColumns |-> cf[k]]

\* Mutant: the current searchable filters written, not the debounced ones.
MutFilterEffectUndebounced(q, sp, deb, fil) ==
  [k \in KeyMapKeys |->
     IF k = "pageIndex" THEN Some(0)
     ELSE IF k \in searchableColumns /\ columnFilters[k].kind = "str"
       THEN Some(columnFilters[k].val[1])
     ELSE IF k \in filterableColumns /\ fil[k].kind = "arr"
       THEN Some(JoinDot(fil[k].val))
     ELSE IF /\ k \in sp
             /\ \/ k \in searchableColumns /\ deb[k].kind = "none"
                \/ k \in filterableColumns /\ fil[k].kind = "none"
       THEN Absent
     ELSE queryState(q)[k]]

\* Mutant: the loop that removes deleted values left out.
MutFilterEffectNoRemoval(q, sp, deb, fil) ==
  [k \in KeyMapKeys |->
     IF k = "pageIndex" THEN Some(0)
     ELSE IF k \in searchableColumns /\ deb[k].kind = "str"
       THEN Some(deb[k].val[1])
     ELSE IF k \in filterableColumns /\ fil[k].kind = "arr"
       THEN Some(JoinDot(fil[k].val))
     ELSE queryState(q)[k]]

\* The parameters the filter effect passes to setQueryState: pageIndex 0, the
\* debounced searchable filters that are strings, the filterable filters that
\* are arrays (joined), null for each key of searchParams that names a filter
\* field with no filter, and queryState for the rest.
FilterEffect(q, sp, deb, fil) ==
  [k \in KeyMapKeys |->
     IF k = "pageIndex" THEN Some(0)
     ELSE IF k \in searchableColumns /\ deb[k].kind = "str"
       THEN Some(deb[k].val[1])
     ELSE IF k \in filterableColumns /\ fil[k].kind = "arr"
       THEN Some(JoinDot(fil[k].val))
     ELSE IF /\ k \in sp
             /\ \/ k \in searchableColumns /\ deb[k].kind = "none"
                \/ k \in filterableColumns /\ fil[k].kind = "none"
       THEN Absent
     ELSE queryState(q)[k]]

\* Mutant: the page index left as it is.
MutResetPageIndex(pg) == pg

\* table.setPageIndex(0): the index clamped to the page count, never below 0.
ResetPageIndex(pg) == [pg EXCEPT !.pageIndex = 0]

\* table.setPageSize(size): the page holding the old page's first row.
WithPageSize(pg, size) ==
  [pageIndex |-> (pg.pageSize * pg.pageIndex) \div size, pageSize |-> size]

\* Mutant: no opt-out when the advanced filter is enabled.
MutAfterFilterEffectNoOptOut(cur, q, sp, pg, deb, fil, adv, mnt) ==
  IF ~mnt
    THEN [query |-> cur, pagination |-> pg, wrote |-> FALSE, mounted |-> TRUE]
  ELSE LET q1 == setQueryState(cur, FilterEffect(q, sp, deb, fil))
           pg1 == ResetPageIndex(pg)
           q2 == IF pg1 = pg THEN q1
                 ELSE setQueryState(q1, PaginationEffect(q1, pg1))
       IN [query |-> q2, pagination |-> pg1, wrote |-> TRUE, mounted |-> mnt]

\* Mutant: the effect's body runs on the initial render too.
MutAfterFilterEffectNoMountedGuard(cur, q, sp, pg, deb, fil, adv, mnt) ==
  IF adv
    THEN [query |-> cur, pagination |-> pg, wrote |-> FALSE, mounted |-> mnt]
  ELSE LET q1 == setQueryState(cur, FilterEffect(q, sp, deb, fil))
           pg1 == ResetPageIndex(pg)
           q2 == IF pg1 = pg THEN q1
                 ELSE setQueryState(q1, PaginationEffect(q1, pg1))
       IN [query |-> q2, pagination |-> pg1, wrote |-> TRUE, mounted |-> TRUE]

\* A render in which the filter effect runs: cur is the state of nuqs, q the
\* queryState of the render, mnt the mounted flag.  The effect, and the
\* pagination effect of the render that the page reset causes.  Gives the
\* state of nuqs, the pagination, whether a write was queued and mounted.
AfterFilterEffect(cur, q, sp, pg, deb, fil, adv, mnt) ==
  IF adv
    THEN [query |-> cur, pagination |-> pg, wrote |-> FALSE, mounted |-> mnt]
  ELSE IF ~mnt
    THEN [query |-> cur, pagination |-> pg, wrote |-> FALSE, mounted |-> TRUE]
  ELSE LET q1 == setQueryState(cur, FilterEffect(q, sp, deb, fil))
           pg1 == ResetPageIndex(pg)
           q2 == IF pg1 = pg THEN q1
                 ELSE setQueryState(q1, PaginationEffect(q1, pg1))
       IN [query |-> q2, pagination |-> pg1, wrote |-> TRUE, mounted |-> mnt]

\* ------------------------------------------------------------ the steps
\* The address bars a mount starts from: each varies the table keys or the
\* filter keys.
UrlOf(pi, ps, so, ti, st) ==
  [k \in KeyMapKeys |->
     CASE k = "pageIndex" -> pi
       [] k = "pageSize" -> ps
       [] k = "sort" -> so
       [] k = "title" -> ti
       [] k = "status" -> st]

InitUrls ==
  {UrlOf(pi, ps, so, Absent, Absent) :
     pi \in {Absent, Some(1)}, ps \in {Absent, Some(20)},
     so \in {Absent, Some(<<>>), Some(<<"title">>),
             Some(<<"title", DOT, "desc">>),
             Some(<<"title", DOT, "desc", DOT, "x">>)}}
  \cup
  {UrlOf(pi, Absent, Absent, ti, st) :
     pi \in {Absent, Some(1)},
     ti \in {Absent, Some(<<>>), Some(<<"a">>)},
     st \in {Absent, Some(<<"todo">>), Some(<<"todo", DOT, "done">>)}}

\* The keys present in a URL, with the keys the hook does not know.
KeysOf(q) == {k \in KeyMapKeys : q[k].present} \cup ForeignKeys

\* ------------------------------------------- DataTableAdvancedFilterItem
\* The options whose items the toolbar shows, the other parameter of the
\* address bar, the texts the user types and the filter varieties of an option
\* without items; an item starts with the first.
Options == {"title", "code"}
ItemUrlKeys == Options \cup {"page"}
ItemTexts == {<<>>, <<"a">>}
filterVarieties == <<"contains", "does not contain", "is", "is not">>
\* The filter varieties the user selects, as indices of filterVarieties.
VarietyChoices == {i \in DOMAIN filterVarieties :
                     filterVarieties[i] \in {"contains", "is not"}}

NotMounted ==
  [mounted |-> FALSE, value |-> <<>>, debounceValue |-> <<>>,
   timer |-> FALSE, filterVariety |-> filterVarieties[1]]

\* No item is shown.
NoItems ==
  /\ item = [o \in Options |-> NotMounted]
  /\ addressBar = [k \in ItemUrlKeys |-> Absent]
  /\ itemSearchParams = addressBar
  /\ navQueue = <<>>

\* Mutant: the query string built from nothing, not from searchParams.
MutcreateQueryString(sp, key, v) ==
  [k \in ItemUrlKeys |-> IF k = key THEN v ELSE Absent]

\* createQueryString({[key]: v}): searchParams with key set, or deleted when v
\* is null.
createQueryString(sp, key, v) == [sp EXCEPT ![key] = v]

\* The URL the effect of an item pushes.
ItemEffect(sp, o, debounceValue, filterVariety) ==
  IF Len(debounceValue) > 0
    THEN createQueryString(sp, o,
                           Some(debounceValue \o <<DOT>> \o <<filterVariety>>))
    ELSE createQueryString(sp, o, Absent)

\* router.push(url): the navigation is queued.
Push(u) ==
  /\ Len(navQueue) < MaxNav
  /\ navQueue' = Append(navQueue, u)

\* ------------------------------------------ a faceted filter and the URL
\* The option values of a faceted field are strings, any the caller lists in
\* filterFields: here the strings of at most MaxValueLen tokens.
OptionTokens == {"todo", "done", DOT}

RECURSIVE StringsOver(_, _)
StringsOver(tokens, n) ==
  IF n = 0 THEN {<<>>}
  ELSE LET shorter == StringsOver(tokens, n - 1)
       IN shorter \cup {Append(s, t) : s \in shorter, t \in tokens}

OptionValues == StringsOver(OptionTokens, MaxValueLen)

\* The non-empty lists of at most MaxSelected selected option values.
RECURSIVE ListsOver(_, _)
ListsOver(values, n) ==
  IF n = 0 THEN {<<>>}
  ELSE LET shorter == ListsOver(values, n - 1)
       IN shorter \cup {Append(l, v) : l \in shorter, v \in values}

SelectedLists == ListsOver(OptionValues, MaxSelected) \ {<<>>}

\* No faceted filter is being taken through the URL.
NoRoundTrip ==
  [stage |-> "none", selected |-> <<>>, param |-> Absent,
   restored |-> NoFilter]

\* The hook before its first render, given its props and the address bar.
Unmounted(sorts) ==
  /\ enableAdvancedFilter \in BOOLEAN
  /\ defaultSort \in sorts
  /\ query \in InitUrls
  /\ searchParams = KeysOf(query)
  /\ flushPending = FALSE
  /\ phase = "unmounted"
  /\ pagination = [pageIndex |-> 0, pageSize |-> 0]
  /\ sorting = <<>>
  /\ columnFilters = [k \in FilterKeys |-> NoFilter]
  /\ mounted = FALSE
  /\ debounced = [k \in searchableColumns |-> NoFilter]
  /\ timerPending = FALSE
  /\ staleAtTimerStart = FALSE
  /\ lastReset = NoReset
  /\ roundTrip = NoRoundTrip

\* defaultSort is 'createdAt.desc' unless the caller passes one, as
\* app/variant/page.tsx does ('title.asc').
Init == Unmounted({<<"createdAt", DOT, "desc">>}) /\ NoItems

MountInit ==
  /\ Unmounted({<<"createdAt", DOT, "desc">>, <<"title", DOT, "asc">>})
  /\ NoItems

\* The first render and its effects, in the order the hook declares them:
\* pagination, sorting, filters (which only records that it has mounted).
Mount ==
  /\ UNCHANGED <<itemVars, roundTrip>>
  /\ phase = "unmounted"
  /\ phase' = "ready"
  /\ sorting' = InitialSorting(query)
  /\ columnFilters' = initialColumnFilters(query)
  /\ debounced' = SearchablePart(initialColumnFilters(query))
  /\ LET q1 == setQueryState(query,
                              PaginationEffect(query, InitialPagination(query)))
         q2 == setQueryState(q1, SortingEffect(query, InitialSorting(query)))
         f == AfterFilterEffect(q2, query, searchParams,
                                InitialPagination(query),
                                SearchablePart(initialColumnFilters(query)),
                                FilterablePart(initialColumnFilters(query)),
                                enableAdvancedFilter, mounted)
     IN /\ query' = f.query
        /\ pagination' = f.pagination
        /\ mounted' = f.mounted
        /\ lastReset' = IF f.wrote THEN [by |-> "mount", from |-> 0] ELSE NoReset
  /\ flushPending' = TRUE
  /\ timerPending' = TRUE
  /\ staleAtTimerStart' = TRUE
  /\ UNCHANGED <<enableAdvancedFilter, defaultSort, searchParams>>

\* nuqs writes its queued updates to the address bar, and the hook renders
\* again with the new searchParams; no dependency of an effect changed.
Flush ==
  /\ UNCHANGED <<itemVars, roundTrip>>
  /\ flushPending
  /\ searchParams' = KeysOf(query)
  /\ flushPending' = FALSE
  /\ staleAtTimerStart' = FALSE
  /\ lastReset' = NoReset
  /\ UNCHANGED <<enableAdvancedFilter, defaultSort, query, phase, pagination,
                 sorting, columnFilters, mounted, debounced, timerPending>>

\* The sorting states the user builds by toggling columns: none, one column
\* either way, two columns.
Sortings ==
  {<<>>,
   <<[id |-> <<"title">>, desc |-> FALSE]>>,
   <<[id |-> <<"title">>, desc |-> TRUE]>>,
   <<[id |-> <<"createdAt">>, desc |-> FALSE], [id |-> <<"title">>, desc |-> TRUE]>>}

\* The values the user gives a faceted filter: non-empty lists of options.
FacetedValues ==
  {<< <<"todo">> >>, << <<"todo">>, <<"done">> >>, << <<"done">>, <<"todo">> >>}

\* onPaginationChange, then the pagination effect.
ChangePagination(pg) ==
  /\ UNCHANGED <<itemVars, roundTrip>>
  /\ phase = "ready"
  /\ pg # pagination
  /\ pagination' = pg
  /\ query' = setQueryState(query, PaginationEffect(query, pg))
  /\ flushPending' = TRUE
  /\ lastReset' = NoReset
  /\ UNCHANGED <<enableAdvancedFilter, defaultSort, searchParams, phase, sorting,
                 columnFilters, mounted, debounced, timerPending,
                 staleAtTimerStart>>

SetPageIndex ==
  \E p \in 0..MaxPage : ChangePagination([pagination EXCEPT !.pageIndex = p])

SetPageSize ==
  \E size \in PageSizes : ChangePagination(WithPageSize(pagination, size))

\* onSortingChange, then the sorting effect.
SetSorting ==
  \E s \in Sortings :
    /\ UNCHANGED <<itemVars, roundTrip>>
    /\ phase = "ready"
    /\ s # sorting
      /\ sorting' = s
    /\ query' = setQueryState(query, SortingEffect(query, s))
    /\ flushPending' = TRUE
    /\ lastReset' = NoReset
    /\ UNCHANGED <<enableAdvancedFilter, defaultSort, searchParams, phase, pagination,
                   columnFilters, mounted, debounced, timerPending,
                   staleAtTimerStart>>

\* The user edits a search input: column.setFilterValue(text), which drops
\* the filter when the text is empty.  The debounce timer starts again.
SetSearchFilter ==
  \E k \in searchableColumns :
    \E v \in {NoFilter} \cup {StrFilter(t) : t \in SearchTexts} :
      /\ UNCHANGED <<itemVars, roundTrip>>
      /\ phase = "ready"
      /\ v # columnFilters[k]
      /\ columnFilters' = [columnFilters EXCEPT ![k] = v]
      /\ timerPending' = TRUE
      /\ staleAtTimerStart' = flushPending
      /\ lastReset' = NoReset
      /\ UNCHANGED <<enableAdvancedFilter, defaultSort, searchParams, query,
                     flushPending, phase, pagination, sorting, mounted,
                     debounced>>

\* The user picks the options of a faceted filter:
\* column.setFilterValue(values), or undefined when none is left.
SetFacetedFilter ==
  \E k \in filterableColumns :
    \E v \in {NoFilter} \cup {ArrFilter(l) : l \in FacetedValues} :
      /\ UNCHANGED <<itemVars, roundTrip>>
      /\ phase = "ready"
      /\ v # columnFilters[k]
      /\ columnFilters' = [columnFilters EXCEPT ![k] = v]
      /\ LET f == AfterFilterEffect(query, query, searchParams, pagination,
                                    debounced,
                                    FilterablePart(columnFilters'),
                                    enableAdvancedFilter, mounted)
         IN /\ query' = f.query
            /\ pagination' = f.pagination
            /\ mounted' = f.mounted
            /\ flushPending' = (flushPending \/ f.wrote)
            /\ lastReset' = IF f.wrote
                               THEN [by |-> "faceted",
                                     from |-> pagination.pageIndex]
                               ELSE NoReset
      /\ UNCHANGED <<enableAdvancedFilter, defaultSort, searchParams, phase, sorting,
                     debounced, timerPending, staleAtTimerStart>>

\* The debounce timer expires: the debounced filters take the current
\* searchable filters, and the filter effect runs when they changed.  The
\* timer runs DebounceDelay, far longer than nuqs takes to flush a write queued
\* before the timer started.
DebounceExpire ==
  /\ UNCHANGED <<itemVars, roundTrip>>
  /\ phase = "ready"
  /\ timerPending
  /\ ~staleAtTimerStart
  /\ timerPending' = FALSE
  /\ debounced' = SearchablePart(columnFilters)
  /\ IF debounced' = debounced
       THEN /\ UNCHANGED <<query, pagination, mounted, flushPending>>
            /\ lastReset' = NoReset
       ELSE LET f == AfterFilterEffect(query, query, searchParams, pagination,
                                       debounced',
                                       FilterablePart(columnFilters),
                                       enableAdvancedFilter, mounted)
            IN /\ query' = f.query
               /\ pagination' = f.pagination
               /\ mounted' = f.mounted
               /\ flushPending' = (flushPending \/ f.wrote)
               /\ lastReset' = IF f.wrote
                                  THEN [by |-> "debounce",
                                        from |-> pagination.pageIndex]
                                  ELSE NoReset
  /\ UNCHANGED <<enableAdvancedFilter, defaultSort, searchParams, phase, sorting,
                 columnFilters, staleAtTimerStart>>

Next ==
  \/ Mount
  \/ SetPageIndex
  \/ SetPageSize
  \/ SetSorting
  \/ SetSearchFilter
  \/ SetFacetedFilter
  \/ DebounceExpire
  \/ Flush

Spec == Init /\ [][Next]_vars

\* The hook mounted and left alone: the first render, its timer and the flush.
MountNext ==
  \/ Mount
  \/ DebounceExpire
  \/ Flush

MountSpec == MountInit /\ [][MountNext]_vars

\* The address bars the toolbar starts from.
ItemInitUrls ==
  {[k \in ItemUrlKeys |-> IF k = "page" THEN Some(<<"2">>) ELSE Absent],
   [k \in ItemUrlKeys |-> IF k = "code" THEN Some(<<"a", DOT, "contains">>)
                          ELSE Absent]}

\* The hook not rendered, for the specification of the items alone.
ItemInit ==
  /\ enableAdvancedFilter = TRUE
  /\ defaultSort = <<"createdAt", DOT, "desc">>
  /\ query = UrlOf(Absent, Absent, Absent, Absent, Absent)
  /\ searchParams = KeysOf(query)
  /\ flushPending = FALSE
  /\ phase = "unmounted"
  /\ pagination = [pageIndex |-> 0, pageSize |-> 0]
  /\ sorting = <<>>
  /\ columnFilters = [k \in FilterKeys |-> NoFilter]
  /\ mounted = FALSE
  /\ debounced = [k \in searchableColumns |-> NoFilter]
  /\ timerPending = FALSE
  /\ staleAtTimerStart = FALSE
  /\ lastReset = NoReset
  /\ roundTrip = NoRoundTrip
  /\ item = [o \in Options |-> NotMounted]
  /\ addressBar \in ItemInitUrls
  /\ itemSearchParams = addressBar
  /\ navQueue = <<>>

\* The user selects an option: its item mounts with an empty value, and its
\* effect runs.
ItemMount ==
  \E o \in Options :
    /\ ~item[o].mounted
    /\ item' = [item EXCEPT ![o] = [NotMounted EXCEPT !.mounted = TRUE,
                                                      !.timer = TRUE]]
    /\ Push(ItemEffect(itemSearchParams, o, <<>>, filterVarieties[1]))
    /\ UNCHANGED <<hookVars, itemSearchParams, addressBar>>

\* The user types in the input of an item: setValue; useDebounce starts its
\* timer again.
ItemSetValue ==
  \E o \in Options : \E text \in ItemTexts :
    /\ item[o].mounted
    /\ text # item[o].value
    /\ item' = [item EXCEPT ![o].value = text, ![o].timer = TRUE]
    /\ UNCHANGED <<hookVars, itemSearchParams, navQueue, addressBar>>

\* The debounce timer of an item expires; its effect runs when debounceValue
\* changed.
ItemDebounceExpire ==
  \E o \in Options :
    /\ item[o].mounted
    /\ item[o].timer
    /\ item' = [item EXCEPT ![o].debounceValue = item[o].value,
                            ![o].timer = FALSE]
    /\ IF item[o].value = item[o].debounceValue
         THEN UNCHANGED navQueue
         ELSE Push(ItemEffect(itemSearchParams, o, item[o].value,
                              item[o].filterVariety))
    /\ UNCHANGED <<hookVars, itemSearchParams, addressBar>>

\* The user selects a filter variety: setFilterVariety, and the effect runs.
ItemSetFilterVariety ==
  \E o \in Options : \E i \in VarietyChoices :
    /\ item[o].mounted
    /\ filterVarieties[i] # item[o].filterVariety
    /\ item' = [item EXCEPT ![o].filterVariety = filterVarieties[i]]
    /\ Push(ItemEffect(itemSearchParams, o, item[o].debounceValue,
                       filterVarieties[i]))
    /\ UNCHANGED <<hookVars, itemSearchParams, addressBar>>

\* The user removes the filter: the parameter is deleted and the item
\* unmounts.
ItemRemove ==
  \E o \in Options :
    /\ item[o].mounted
    /\ item' = [item EXCEPT ![o] = NotMounted]
    /\ Push(createQueryString(itemSearchParams, o, Absent))
    /\ UNCHANGED <<hookVars, itemSearchParams, addressBar>>

\* A navigation completes: the address bar takes the pushed URL and the items
\* render with it as searchParams.
NavComplete ==
  /\ navQueue # <<>>
  /\ addressBar' = Head(navQueue)
  /\ itemSearchParams' = Head(navQueue)
  /\ navQueue' = Tail(navQueue)
  /\ UNCHANGED <<hookVars, item>>

ItemNext ==
  \/ ItemMount
  \/ ItemSetValue
  \/ ItemDebounceExpire
  \/ ItemSetFilterVariety
  \/ ItemRemove
  \/ NavComplete

ItemSpec == ItemInit /\ [][ItemNext]_vars

\* The hook with the list selected in its faceted filter and nothing in the
\* URL.
RoundTripInit ==
  /\ enableAdvancedFilter = FALSE
  /\ defaultSort = <<"createdAt", DOT, "desc">>
  /\ query = UrlOf(Absent, Absent, Absent, Absent, Absent)
  /\ searchParams = KeysOf(query)
  /\ flushPending = FALSE
  /\ phase = "unmounted"
  /\ pagination = [pageIndex |-> 0, pageSize |-> 0]
  /\ sorting = <<>>
  /\ columnFilters = [k \in FilterKeys |-> NoFilter]
  /\ mounted = FALSE
  /\ debounced = [k \in searchableColumns |-> NoFilter]
  /\ timerPending = FALSE
  /\ staleAtTimerStart = FALSE
  /\ lastReset = NoReset
  /\ \E list \in SelectedLists :
       roundTrip = [NoRoundTrip EXCEPT !.stage = "selected",
                                       !.selected = list]
  /\ NoItems

\* The filter effect writes the selected list to the URL.
WriteFaceted ==
  /\ roundTrip.stage = "selected"
  /\ roundTrip' =
       [roundTrip EXCEPT
          !.stage = "written",
          !.param = FilterEffect(query, searchParams, debounced,
                                 [k \in filterableColumns |->
                                    ArrFilter(roundTrip.selected)])["status"]]
  /\ UNCHANGED <<enableAdvancedFilter, defaultSort, query, searchParams,
                 flushPending, phase, pagination, sorting, columnFilters,
                 mounted, debounced, timerPending, staleAtTimerStart,
                 lastReset, itemVars>>

\* A fresh mount restores the filter from the URL that was written.
RestoreFaceted ==
  /\ roundTrip.stage = "written"
  /\ roundTrip' =
       [roundTrip EXCEPT
          !.stage = "restored",
          !.restored =
             initialColumnFilters([query EXCEPT
                                     !["status"] = roundTrip.param])["status"]]
  /\ UNCHANGED <<enableAdvancedFilter, defaultSort, query, searchParams,
                 flushPending, phase, pagination, sorting, columnFilters,
                 mounted, debounced, timerPending, staleAtTimerStart,
                 lastReset, itemVars>>

RoundTripNext == WriteFaceted \/ RestoreFaceted

RoundTripSpec == RoundTripInit /\ [][RoundTripNext]_vars

\* ================================================================ claims
\* The sort parameter the hook reads: the URL's, or defaultSort.
SortRead == IF query["sort"].present THEN query["sort"].val ELSE defaultSort

\* A step in which a dependency of the filter effect changes: the debounced
\* searchable filters or the filterable filters.
FilterDepsChange ==
  \/ debounced' # debounced
  \/ FilterablePart(columnFilters') # FilterablePart(columnFilters)

\* The hook is at rest: mounted, no debounce timer, nothing queued in nuqs.
Quiescent == phase = "ready" /\ ~timerPending /\ ~flushPending

\* C1 (as stated): in every quiescent state of the hook in non-advanced mode
\* the table's pagination, sorting and column filters are those a fresh mount
\* would initialise from the current URL.
C1_MirrorsUrl ==
  (Quiescent /\ ~enableAdvancedFilter) =>
    /\ pagination = InitialPagination(query)
    /\ sorting = InitialSorting(query)
    /\ columnFilters = initialColumnFilters(query)

\* What C2 says of the pagination and of the column filters a mount restores:
\* the URL's page index and size, 0 and defaultPageSize when absent; a filter
\* for exactly the filter fields whose parameter is non-empty.
C2_Restored ==
  /\ pagination'.pageIndex =
       (IF query["pageIndex"].present THEN query["pageIndex"].val ELSE 0)
  /\ pagination'.pageSize =
       (IF query["pageSize"].present THEN query["pageSize"].val
        ELSE defaultPageSize)
  /\ DOMAIN columnFilters' = FilterKeys
  /\ \A k \in FilterKeys :
       (columnFilters'[k] # NoFilter) <=>
         (query[k].present /\ query[k].val # <<>>)
  /\ Len(sorting') = 1
  /\ sorting'[1].id = BeforeFirstDot(SortRead)

\* C2 (as stated): on mount the table state is restored from the URL, the
\* desc flag being true iff the part of sort after its first '.' is 'desc'.
C2_RestoreOriginal ==
  [][phase = "unmounted" /\ phase' = "ready" =>
       /\ C2_Restored
       /\ sorting'[1].desc = (AfterFirstDot(SortRead) = Some(<<"desc">>))]_vars

\* C2 (amended): on mount the table state is restored from the URL, the desc
\* flag being true iff the part of sort between its first '.' and its second
\* '.' (or its end) is 'desc'.
C2_Restore ==
  [][phase = "unmounted" /\ phase' = "ready" =>
       /\ C2_Restored
       /\ sorting'[1].desc =
            /\ AfterFirstDot(SortRead).present
            /\ BeforeFirstDot(AfterFirstDot(SortRead).val) = <<"desc">>]_vars

\* C2's case: a mount restored a descending sort on title, the second page
\* and a page size of 20 from the URL.
C2_Witness ==
  /\ phase = "ready"
  /\ sorting = <<[id |-> <<"title">>, desc |-> TRUE]>>
  /\ query["sort"] = Some(<<"title", DOT, "desc">>)
  /\ pagination = [pageIndex |-> 1, pageSize |-> 20]

\* C3: once the hook has mounted, the URL parameters pageIndex and pageSize
\* are the table's pagination state, whatever pagination changes were made.
C3_PaginationInUrl ==
  phase = "ready" =>
    /\ query["pageIndex"] = Some(pagination.pageIndex)
    /\ query["pageSize"] = Some(pagination.pageSize)

\* C3's case: the page size was changed from 20 to 10 on page 1, which moves
\* the table to page 2, and the URL has been flushed.
C3_Witness ==
  /\ phase = "ready"
  /\ ~flushPending
  /\ pagination = [pageIndex |-> 2, pageSize |-> 10]
  /\ query["pageIndex"] = Some(2)

\* C4: a step that changes the sorting state leaves the URL sort parameter
\* '<id>.desc' or '<id>.asc' for the first entry, and removes it when the
\* sorting is empty or its first entry has an empty id.
C4_SortInUrl ==
  [][sorting' # sorting =>
       IF sorting' = <<>> \/ Head(sorting').id = <<>>
         THEN ~query'["sort"].present
         ELSE /\ query'["sort"].present
              /\ query'["sort"].val =
                   Head(sorting').id \o
                     (IF Head(sorting').desc THEN <<DOT, "desc">>
                      ELSE <<DOT, "asc">>)]_vars

\* C4's case: the user sorted by two columns, and the URL names the first.
C4_Witness ==
  /\ phase = "ready"
  /\ Len(sorting) = 2
  /\ query["sort"] = Some(<<"createdAt", DOT, "asc">>)

\* C5: in non-advanced mode a value of a search filter is written to the URL
\* only by the step in which the debounce timer expires, and is then the
\* current value of the filter; and that step leaves the URL parameter equal
\* to the current value (absent or empty when the input is empty).
C5_DebouncedSearch ==
  [][(phase = "ready" /\ ~enableAdvancedFilter) =>
       \A k \in searchableColumns :
         /\ (query'[k] # query[k] /\ query'[k].present) =>
              /\ timerPending /\ ~timerPending'
              /\ columnFilters[k] = StrFilter(query'[k].val)
         /\ (timerPending /\ ~timerPending') =>
              /\ columnFilters[k].kind = "str" =>
                   query'[k] = Some(columnFilters[k].val[1])
              /\ columnFilters[k].kind = "none" =>
                   (~query'[k].present \/ query'[k].val = <<>>)]_vars

\* C5's case: the URL holds the value "b" the debounce wrote, and the user has
\* typed "a" since, which the URL does not show while the timer runs.
C5_Witness ==
  /\ phase = "ready" /\ ~enableAdvancedFilter
  /\ timerPending
  /\ columnFilters["title"] = StrFilter(<<"a">>)
  /\ debounced["title"] = StrFilter(<<"b">>)
  /\ query["title"] = Some(<<"b">>)

\* C7: with the advanced filter enabled, a step that changes the column
\* filters or the debounced filters writes no filter parameter, does not
\* touch pageIndex in the URL and does not move the table's page.
C7_AdvancedOptsOut ==
  [][(phase = "ready" /\ enableAdvancedFilter
        /\ (columnFilters' # columnFilters \/ debounced' # debounced)) =>
       /\ \A k \in FilterKeys : query'[k] = query[k]
       /\ query'["pageIndex"] = query["pageIndex"]
       /\ pagination' = pagination]_vars

\* C7's case: advanced mode, on page 1, a faceted and a debounced search
\* filter set in the table and neither in the URL.
C7_Witness ==
  /\ phase = "ready" /\ enableAdvancedFilter
  /\ pagination.pageIndex = 1
  /\ columnFilters["status"] = ArrFilter(<< <<"done">>, <<"todo">> >>)
  /\ debounced["title"] = StrFilter(<<"a">>)
  /\ ~timerPending
  /\ ~query["status"].present /\ ~query["title"].present
  /\ query["pageIndex"] = Some(1)

\* C8: mounted in non-advanced mode and left alone, a hook whose URL has
\* pageIndex k > 0 keeps the table on page k and pageIndex k in the URL, in
\* every step.
C8_MountKeepsPage ==
  [][(~enableAdvancedFilter /\ query["pageIndex"].present
        /\ query["pageIndex"].val > 0) =>
       /\ pagination'.pageIndex = query["pageIndex"].val
       /\ query'["pageIndex"] = query["pageIndex"]]_vars

\* C8's case: all initial effects have run, with filter parameters in the
\* URL, and the page is still 1.
C8_Witness ==
  /\ Quiescent /\ ~enableAdvancedFilter /\ mounted
  /\ columnFilters["title"] # NoFilter /\ columnFilters["status"] # NoFilter
  /\ pagination.pageIndex = 1
  /\ query["pageIndex"] = Some(1)

\* C9: in non-advanced mode, after the initial render, a step in which the
\* debounced search filters or the faceted filters change leaves pageIndex 0
\* in the URL and the table on page 0.
C9_FilterChangeResetsPage ==
  [][(phase = "ready" /\ ~enableAdvancedFilter /\ FilterDepsChange) =>
       /\ pagination'.pageIndex = 0
       /\ query'["pageIndex"] = Some(0)]_vars

\* C9's case: the debounce timer expired with the table on page 1, and the
\* page was reset.
C9_Witness ==
  /\ lastReset = [by |-> "debounce", from |-> 1]
  /\ debounced["title"] = StrFilter(<<"a">>)
  /\ pagination.pageIndex = 0
  /\ query["pageIndex"] = Some(0)

\* What C10 says of the filter fields and of the keys the hook does not
\* know: each key of the address bar that names a filter field with no filter
\* (debounced for a search field, current for a faceted field) is removed, and
\* the keys of the address bar that name no filter field stay.
C10_Removed ==
  /\ \A k \in searchableColumns :
       (k \in searchParams /\ debounced'[k] = NoFilter) => ~query'[k].present
  /\ \A k \in filterableColumns :
       (k \in searchParams /\ columnFilters'[k] = NoFilter) =>
         ~query'[k].present
  /\ searchParams' \ KeyMapKeys = searchParams \ KeyMapKeys

C6_ItemPushesUrl ==
  [][\A o \in Options :
       (/\ item[o].mounted /\ item'[o].mounted
        /\ \/ item'[o].debounceValue # item[o].debounceValue
           \/ item'[o].filterVariety # item[o].filterVariety) =>
         /\ Len(navQueue') = Len(navQueue) + 1
         /\ LET u == navQueue'[Len(navQueue')]
            IN /\ item'[o].debounceValue # <<>> =>
                    /\ u[o].present
                    /\ u[o].val = item'[o].debounceValue \o
                                    <<DOT, item'[o].filterVariety>>
               /\ item'[o].debounceValue = <<>> => ~u[o].present
               /\ \A k \in ItemUrlKeys \ {o} : u[k] = itemSearchParams[k]]_vars

\* C6's case: the item of title pushed 'a.is not' with the other parameters
\* of its searchParams, page and code, kept.
C6_Witness ==
  /\ item["title"].mounted
  /\ item["title"].debounceValue = <<"a">>
  /\ navQueue # <<>>
  /\ navQueue[Len(navQueue)]["title"] = Some(<<"a", DOT, "is not">>)
  /\ navQueue[Len(navQueue)]["page"] = Some(<<"2">>)
  /\ navQueue[Len(navQueue)]["code"] = Some(<<"a", DOT, "contains">>)
  /\ itemSearchParams["code"] = Some(<<"a", DOT, "contains">>)

\* C11 (as stated): a faceted filter round-trips through the URL: the filter a
\* fresh mount restores from the parameter written for a non-empty list of
\* selected option values has that list, in the same order, as its value.
C11_FacetedRoundTrip ==
  roundTrip.stage = "restored" =>
    roundTrip.restored = ArrFilter(roundTrip.selected)

\* C12 (as stated): the URL updates of two mounted items do not overwrite each
\* other: once both debounced values are non-empty, no debounce timer is
\* pending and every navigation of router.push has completed, the address bar
\* has the parameter of each option, '<debounced value>.<filter variety>'.
C12_BothParametersKept ==
  (/\ \A o \in Options :
        /\ item[o].mounted
        /\ ~item[o].timer
        /\ item[o].debounceValue # <<>>
   /\ navQueue = <<>>) =>
    \A o \in Options :
      addressBar[o] =
        Some(item[o].debounceValue \o <<DOT, item[o].filterVariety>>)
====
